---- MODULE Spec2Model ----
(***************************************************************************)
(* Multi-channel narrowband FM recorder (scan_record_nfm.py).              *)
(*                                                                         *)
(* The main thread reads raw I/Q bytes, snapshots the channel registry     *)
(* under dict_lock and enqueues the batch to every Demodulator and to the  *)
(* FrequencyAdder (the scanner).  Every Demodulator and the scanner own a  *)
(* worker thread that takes items off an unbounded queue.                  *)
(*                                                                         *)
(* Conventions of the model:                                               *)
(*  - a byte string is a sequence of runs <<lo, hi>> of stream positions   *)
(*    (byte i of stdin is identified by its position i), lo < hi, no two   *)
(*    adjacent runs contiguous;                                            *)
(*  - dB values (dbfs, dbfs_off) are integers in units of 0.001 dB; the    *)
(*    float smoothing of vote_by_dbfs is computed in that fixed point;     *)
(*  - the baseband block of batch n is the sample sequence <<2n, 2n+1>>,   *)
(*    the silence block is <<0, 0>>; the filters (module filters, not part *)
(*    of the sources) are not modelled, a written WAV block records the    *)
(*    baseband samples it was computed from;                               *)
(*  - dbfs_avg, ac_avg, display_count, tmbase and the scan log file only   *)
(*    feed log lines and are left out.                                     *)
(***************************************************************************)
EXTENDS Integers, Sequences, FiniteSets, TLC

\* ---------------------------------------------------------------- bounds
\* iterations of the ingest loop explored by Spec
MaxBatches == 3
\* iterations of the ingest loop explored by SpecDemod
MaxIngest == 9
\* iterations of the ingest loop explored by SpecMixer
MaxMixerBatches == 3

\* ------------------------------------------------- program configuration
CENTER == 1000000
INPUT_RATE == 250000
STEP == 2500
IF_RATE == 25000
AUDIO_RATE == 12500
INGEST_SIZE == INPUT_RATE \div 10
THRESHOLD_SNR == 15
\* THRESHOLD_AC = 0.4, in hundredths
THRESHOLD_AC == 40
HISTERESIS_UP == -3
HISTERESIS_DOWN == 3
CHANNEL_SPACING == 12500
\* nfft of signal.welch in convert2hist
NFFT == 8192
\* the one frequency given on the command line
FREQ1 == 1012500

freqs == <<FREQ1>>

\* signal levels a batch can have, in 0.001 dB
DbfsLevels == {-100000, 12000}
\* autocorrelation metrics a batch can have, in hundredths
AcLevels == {20, 60}
\* argmax bins of the PSD the scanner can see (signed bin index k of fftfreq)
ScanBins == {410, 3700}

\* command lines explored by SpecMixer: INPUT_RATE, STEP and the offset of the
\* one channel from CENTER
MixerRates == {25000, 250000}
MixerSteps == {1, 4, 5, 7, 8, 2500}
MixerOffsets == {0, 2500, -5000}

VARIABLES
    use_autocorrelation, \* "-a" in sys.argv
    main_pc,             \* position of the main thread
    nbatch,              \* iterations of the ingest loop started so far
    stream_pos,          \* bytes read from stdin so far
    eof,                 \* stdin has reached end of file
    remaining_data,      \* module-level remaining_data
    iqdata,              \* module-level iqdata: the batch of this iteration
    demods,              \* module-level demods: the snapshot of the registry
    idx,                 \* position of the running for loop of the main thread
    iter_len,            \* size of the dict when the running dict iterator was made
    dict_lock,           \* "free" or the thread holding dict_lock
    demodulators,        \* the registry dict: its items <<freq, object>>, in insertion order
    chan,                \* the Demodulator objects constructed so far, by object number
    fa_queue,            \* FrequencyAdder.queue
    fa_pc,               \* position of the FrequencyAdder worker
    fa_freq,             \* local freq of FrequencyAdder._ingest
    delivered,           \* history: bytes handed out in batches so far
    last_read            \* history: [n, odd] of the last read of the ingest loop

vars == <<use_autocorrelation, main_pc, nbatch, stream_pos, eof, remaining_data,
          iqdata, demods, idx, iter_len, dict_lock, demodulators, chan,
          fa_queue, fa_pc, fa_freq, delivered, last_read>>

\* ------------------------------------------------------------ helpers
Min(a, b) == IF a < b THEN a ELSE b
Max(a, b) == IF a > b THEN a ELSE b

RECURSIVE Concatenate(_)
\* numpy.concatenate of a list of arrays
Concatenate(arrays) ==
    IF arrays = <<>> THEN <<>> ELSE Head(arrays) \o Concatenate(Tail(arrays))

RECURSIVE BLen(_)
\* len() of a byte string
BLen(b) == IF b = <<>> THEN 0 ELSE (Head(b)[2] - Head(b)[1]) + BLen(Tail(b))

\* a + b on byte strings
BCat(a, b) ==
    IF a = <<>> THEN b
    ELSE IF b = <<>> THEN a
    ELSE IF a[Len(a)][2] = b[1][1]
         THEN SubSeq(a, 1, Len(a) - 1) \o <<<<a[Len(a)][1], b[1][2]>>>> \o Tail(b)
         ELSE a \o b

\* data[-1:]
BLast(b) == IF b = <<>> THEN <<>> ELSE <<<<b[Len(b)][2] - 1, b[Len(b)][2]>>>>

\* data[:-1]
BInit(b) ==
    IF b = <<>> THEN <<>>
    ELSE IF b[Len(b)][2] - b[Len(b)][1] = 1 THEN SubSeq(b, 1, Len(b) - 1)
    ELSE SubSeq(b, 1, Len(b) - 1) \o <<<<b[Len(b)][1], b[Len(b)][2] - 1>>>>

\* the n bytes of stdin that follow position pos
StreamBytes(pos, n) == IF n = 0 THEN <<>> ELSE <<<<pos, pos + n>>>>

\* baseband block (output_raw) demodulated from batch n
Baseband(n) == <<2 * n, 2 * n + 1>>
\* silence = numpy.zeros(IF_RATE // 10)
silence == <<0, 0>>

\* ------------------------------------------------------- class Demodulator
\* Demodulator.__init__ under the command line (center, input_rate, step): the
\* object after construction, its worker started
DemodulatorAt(center, input_rate, step, freq, oid) ==
    [ oid |-> oid,
      freq |-> freq,
      wav |-> 0,                       \* None; otherwise the index of the open file
      histeresis |-> HISTERESIS_UP,
      old_histeresis |-> 0,
      is_recording |-> FALSE,
      memory_up |-> <<>>,
      insert_timestamp |-> FALSE,
      lower_freq |-> freq - CHANNEL_SPACING \div 2,
      higher_freq |-> freq + CHANNEL_SPACING \div 2,
      dbfs_off |-> 0,
      if_freq |-> freq - center,
      carrier_len |-> (input_rate \div 10) * 2, \* len(self.carrier_table)
      if_period |-> input_rate \div step,
      if_phase |-> 0,
      queue |-> <<>>,
      thread |-> "running",            \* "running", "exited" (break) or "dead" (exception)
      files |-> <<>>,                  \* the WAV files created, each the blocks written
      received |-> <<>>,               \* history: numbers of the batches put on the queue
      closed |-> FALSE,                \* history: close_queue was called
      hist |-> <<>>,                   \* history: one record per batch squelch has seen
      zero_strength |-> FALSE ]        \* history: a batch of zero IF strength came

\* Demodulator.__init__ under the command line of Spec and SpecDemod
Demodulator(freq, oid) == DemodulatorAt(CENTER, INPUT_RATE, STEP, freq, oid)

\* is_within that tests the lower half of the channel only
is_within_lower_half(self, freq) == self.lower_freq < freq /\ freq <= self.freq

\* Demodulator.is_within
is_within(self, freq) == self.lower_freq < freq /\ freq <= self.higher_freq

\* vote_by_dbfs that tracks the noise floor while recording too
vote_by_dbfs_tracking(self, dbfs) ==
    LET vote == IF dbfs > self.dbfs_off + THRESHOLD_SNR * 1000 THEN 1 ELSE -1
    IN  [ vote |-> vote,
          dbfs_off |->
            IF vote < 0
            THEN IF dbfs < self.dbfs_off
                 THEN (50 * dbfs + 950 * self.dbfs_off) \div 1000
                 ELSE (5 * dbfs + 995 * self.dbfs_off) \div 1000
            ELSE self.dbfs_off ]

\* Demodulator.vote_by_dbfs: the vote and the new dbfs_off
vote_by_dbfs(self, dbfs) ==
    LET vote == IF dbfs > self.dbfs_off + THRESHOLD_SNR * 1000 THEN 1 ELSE -1
    IN  [ vote |-> vote,
          dbfs_off |->
            IF ~self.is_recording /\ vote < 0
            THEN IF dbfs < self.dbfs_off
                 THEN (50 * dbfs + 950 * self.dbfs_off) \div 1000
                 ELSE (5 * dbfs + 995 * self.dbfs_off) \div 1000
            ELSE self.dbfs_off ]

\* Demodulator.vote_by_autocorrelation: the vote for autocorrelation metric ac
vote_by_autocorrelation(ac) == IF ac > THRESHOLD_AC THEN 1 ELSE -1

\* hysteresis counter that a single vote moves through the whole range
squelch_histeresis_jump(histeresis, vote) ==
    Min(HISTERESIS_DOWN, Max(HISTERESIS_UP, histeresis + HISTERESIS_DOWN * vote))

\* squelch, lines 240-241: the clamped hysteresis counter
squelch_histeresis(histeresis, vote) ==
    Min(HISTERESIS_DOWN, Max(HISTERESIS_UP, histeresis + vote))

\* memory_up that takes every batch, whatever its vote
squelch_memory_always(memory_up, vote, output_raw) == Append(memory_up, output_raw)

\* memory_up that a negative vote does not clear
squelch_memory_kept(memory_up, vote, output_raw) ==
    IF vote > 0 THEN Append(memory_up, output_raw) ELSE memory_up

\* squelch, lines 247-251: memory_up after the vote of a batch not recording
squelch_memory(memory_up, vote, output_raw) ==
    IF vote > 0 THEN Append(memory_up, output_raw) ELSE <<>>

\* start test that one positive vote satisfies
squelch_start_early(histeresis) == histeresis >= HISTERESIS_UP + 1

\* stop test that needs one more negative vote
squelch_stop_strict(histeresis) == histeresis < 0

\* start test that needs one more positive vote
squelch_start_strict(histeresis) == histeresis > 0

\* squelch, line 253: the test that starts a recording
squelch_start(histeresis) == histeresis >= 0

\* squelch, line 261: the test that stops a recording
squelch_stop(histeresis) == histeresis <= 0

\* Demodulator.squelch: [self, squelch, output_raw, vote, raised]
squelch(self, dbfs, ac, output_raw) ==
    LET v  == IF use_autocorrelation
              THEN [vote |-> vote_by_autocorrelation(ac), dbfs_off |-> self.dbfs_off]
              ELSE vote_by_dbfs(self, dbfs)
        h1 == squelch_histeresis(self.histeresis, v.vote)
        s1 == [self EXCEPT !.old_histeresis = self.histeresis,
                           !.histeresis = h1,
                           !.dbfs_off = v.dbfs_off]
    IN  IF ~self.is_recording
        THEN LET mem == squelch_memory(self.memory_up, v.vote, output_raw)
             IN  IF squelch_start(h1)
                 THEN IF mem = <<>>
                      THEN \* numpy.concatenate(()) raises ValueError
                           [ self |-> [s1 EXCEPT !.memory_up = mem,
                                                 !.is_recording = TRUE,
                                                 !.insert_timestamp = TRUE,
                                                 !.histeresis = HISTERESIS_DOWN],
                             squelch |-> FALSE, output_raw |-> output_raw,
                             vote |-> v.vote, raised |-> TRUE ]
                      ELSE [ self |-> [s1 EXCEPT !.memory_up = <<>>,
                                                 !.is_recording = TRUE,
                                                 !.insert_timestamp = TRUE,
                                                 !.histeresis = HISTERESIS_DOWN],
                             squelch |-> FALSE, output_raw |-> Concatenate(mem),
                             vote |-> v.vote, raised |-> FALSE ]
                 ELSE [ self |-> [s1 EXCEPT !.memory_up = mem],
                        squelch |-> TRUE, output_raw |-> output_raw,
                        vote |-> v.vote, raised |-> FALSE ]
        ELSE IF squelch_stop(h1)
             THEN [ self |-> [s1 EXCEPT !.is_recording = FALSE,
                                        !.histeresis = HISTERESIS_UP,
                                        !.memory_up = <<>>],
                    squelch |-> FALSE, output_raw |-> silence,
                    vote |-> v.vote, raised |-> FALSE ]
             ELSE [ self |-> s1, squelch |-> FALSE, output_raw |-> output_raw,
                    vote |-> v.vote, raised |-> FALSE ]

\* (t * f) mod m without leaving 32 bits, for 0 <= t and m <= 250000
MulMod(t, f, m) ==
    ((((t \div 1000) * (f % m)) % m) * 1000 + (t % 1000) * (f % m)) % m

\* line 93: the angle of self.carrier_table[t], exp(-j*tau*t*if_freq/INPUT_RATE),
\* as the number of turns times INPUT_RATE, modulo one turn
carrier_angle(self, t) == MulMod(t, self.if_freq, INPUT_RATE)

\* len(self.carrier_table[self.if_phase : self.if_phase + n])
carrier_slice_len(self, n) ==
    Max(0, Min(self.carrier_len, self.if_phase + n) - Min(self.carrier_len, self.if_phase))

\* iqsamples * carrier raises ValueError when the shapes do not broadcast
mix_raises(self, n) ==
    LET m == carrier_slice_len(self, n) IN m # n /\ m # 1 /\ n # 1

\* the block goes to the open file, or to the newest file when none is open
write_block_reopen(self, block) ==
    IF self.wav = 0 /\ self.files = <<>>
    THEN [self EXCEPT !.files = Append(@, <<block>>), !.wav = 1]
    ELSE [self EXCEPT !.files[Len(self.files)] = Append(@, block),
                      !.wav = Len(self.files)]

\* Demodulator.create_wav and wav.writeframes: the block goes to the open
\* file, a new file is created first when none is open
write_block(self, block) ==
    IF self.wav = 0
    THEN [self EXCEPT !.files = Append(@, <<block>>), !.wav = Len(self.files) + 1]
    ELSE [self EXCEPT !.files[self.wav] = Append(@, block)]

\* timestamp request that is never taken back
prefix_timestamp_kept(self, output_raw, n) ==
    [ block |-> [samples |-> output_raw, ts |-> self.insert_timestamp, n |-> n],
      self |-> self ]

\* lines 223-225: the block of batch n to be written, prefixed by the
\* timestamp (ts) when one was requested, and the request taken back
prefix_timestamp(self, output_raw, n) ==
    [ block |-> [samples |-> output_raw, ts |-> self.insert_timestamp, n |-> n],
      self |-> [self EXCEPT !.insert_timestamp = FALSE] ]

\* Demodulator._ingest on batch b, whose IF strength is zero or has level dbfs
\* and whose autocorrelation metric is ac: [self, raised]
Demodulator_ingest(self, b, zero, dbfs, ac) ==
    LET n  == BLen(b.data) \div 2
        s0 == [self EXCEPT !.if_phase = (self.if_phase + n) % self.if_period]
    IN  IF mix_raises(self, n)
        THEN [self |-> s0, raised |-> TRUE]
        ELSE IF zero
        THEN \* math.log10(0) raises ValueError
             [self |-> [s0 EXCEPT !.zero_strength = TRUE], raised |-> TRUE]
        ELSE
        LET r  == squelch(s0, dbfs, ac, Baseband(b.n))
            h  == [ n |-> b.n, vote |-> r.vote,
                    rec0 |-> self.is_recording, rec1 |-> r.self.is_recording,
                    h0 |-> self.histeresis, h1 |-> r.self.histeresis,
                    off0 |-> self.dbfs_off, off1 |-> r.self.dbfs_off,
                    squelch |-> r.squelch, out |-> r.output_raw,
                    phase0 |-> self.if_phase, len |-> n, wav0 |-> self.wav,
                    mem0 |-> Len(self.memory_up), mem1 |-> Len(r.self.memory_up) ]
            s1 == [r.self EXCEPT !.hist = Append(@, h)]
        IN  IF r.raised THEN [self |-> r.self, raised |-> TRUE]
            ELSE IF r.squelch THEN [self |-> [s1 EXCEPT !.wav = 0], raised |-> FALSE]
            ELSE LET t == prefix_timestamp(s1, r.output_raw, b.n)
                 IN  [ self |-> write_block(t.self, t.block), raised |-> FALSE ]

\* put on a queue that hands out the newest item first
queue_put_lifo(self, item) ==
    [self EXCEPT !.queue = <<item>> \o @,
                 !.received = IF item.n = 0 THEN @ ELSE Append(@, item.n),
                 !.closed = @ \/ item.n = 0]

\* Demodulator.ingest / close_queue: self.queue.put(item)
queue_put(self, item) ==
    [self EXCEPT !.queue = Append(@, item),
                 !.received = IF item.n = 0 THEN @ ELSE Append(@, item.n),
                 !.closed = @ \/ item.n = 0]

\* the termination sentinel (None)
Sentinel == [n |-> 0, data |-> <<>>]

\* ------------------------------------------------------------ the registry
\* assignment that rebinds the dict to the new item alone
DictSet_rebind(d, key, oid) == <<<<key, oid>>>>

\* d[key] = oid on a dict held as the sequence of its items
DictSet(d, key, oid) ==
    IF \E i \in 1..Len(d) : d[i][1] = key
    THEN [i \in 1..Len(d) |-> IF d[i][1] = key THEN <<key, oid>> ELSE d[i]]
    ELSE Append(d, <<key, oid>>)

RECURSIVE InitRegistry(_, _)
\* for f in freqs: demodulators[f] = Demodulator(f), from object number oid on
InitRegistry(fs, oid) ==
    IF fs = <<>> THEN [dict |-> <<>>, objs |-> <<>>]
    ELSE LET rest == InitRegistry(SubSeq(fs, 1, Len(fs) - 1), oid)
             f == fs[Len(fs)]
         IN  [ dict |-> DictSet(rest.dict, f, oid + Len(rest.objs)),
               objs |-> Append(rest.objs, Demodulator(f, oid + Len(rest.objs))) ]

\* ------------------------------------------------------------- ingest_data
\* ingest_data(size, remaining_data) when stdin.read returns the bytes `read`:
\* logging.info(..., file=sys.stderr) of the odd-byte branch raises TypeError
ingest_data(rem, read) ==
    LET data == BCat(rem, read)
    IN  IF BLen(data) % 2 = 1
        THEN [raised |-> TRUE, data |-> BInit(data), remaining_data |-> BLast(data)]
        ELSE [raised |-> FALSE, data |-> data, remaining_data |-> rem]

\* what sys.stdin.buffer.read(size) can return: size bytes, fewer at the end
\* of the stream, nothing once the end was reached
ReadLens(size) == IF eof THEN {0} ELSE {size, size - 1, size - 2, 0}

\* -------------------------------------------------------------- main thread
\* line 436: iqdata, remaining_data = ingest_data(size, remaining_data)
MainReadOf(cap, size) ==
    /\ main_pc = "read"
    /\ nbatch < cap
    /\ \E n \in ReadLens(size) :
         LET r == ingest_data(remaining_data, StreamBytes(stream_pos, n))
         IN  /\ stream_pos' = stream_pos + n
             /\ eof' = (eof \/ n < size)
             /\ nbatch' = nbatch + 1
             /\ last_read' = [n |-> n, odd |-> r.raised]
             /\ IF r.raised
                THEN /\ main_pc' = "crashed"
                     /\ UNCHANGED <<iqdata, remaining_data, delivered>>
                ELSE /\ main_pc' = "lock"
                     /\ iqdata' = [n |-> nbatch + 1, data |-> r.data]
                     /\ remaining_data' = r.remaining_data
                     /\ delivered' = BCat(delivered, r.data)
    /\ UNCHANGED <<use_autocorrelation, demods, idx, iter_len, dict_lock,
                   demodulators, chan, fa_queue, fa_pc, fa_freq>>

\* line 436 under the command line of Spec and SpecDemod
MainRead(cap) == MainReadOf(cap, INGEST_SIZE * 2)

\* lines 438-439: with dict_lock: demods = list(demodulators.items())
MainSnapshot ==
    /\ main_pc = "lock"
    /\ dict_lock = "free"
    /\ demods' = demodulators
    /\ idx' = 1
    /\ main_pc' = IF demodulators = <<>> THEN "scan" ELSE "fanout"
    /\ UNCHANGED <<use_autocorrelation, nbatch, stream_pos, eof, remaining_data,
                   iqdata, iter_len, dict_lock, demodulators, chan, fa_queue,
                   fa_pc, fa_freq, delivered, last_read>>

\* lines 440-441: one iteration of for k, d in demods: d.ingest(iqdata)
MainFanout ==
    /\ main_pc = "fanout"
    /\ chan' = [chan EXCEPT ![demods[idx][2]] = queue_put(@, iqdata)]
    /\ idx' = idx + 1
    /\ main_pc' = IF idx + 1 > Len(demods) THEN "scan" ELSE "fanout"
    /\ UNCHANGED <<use_autocorrelation, nbatch, stream_pos, eof, remaining_data,
                   iqdata, demods, iter_len, dict_lock, demodulators, fa_queue,
                   fa_pc, fa_freq, delivered, last_read>>

\* line 443: fa.ingest(iqdata)
MainScan ==
    /\ main_pc = "scan"
    /\ fa_queue' = Append(fa_queue, iqdata)
    /\ main_pc' = "read"
    /\ UNCHANGED <<use_autocorrelation, nbatch, stream_pos, eof, remaining_data,
                   iqdata, demods, idx, iter_len, dict_lock, demodulators, chan,
                   fa_pc, fa_freq, delivered, last_read>>

\* lines 444-447: KeyboardInterrupt inside the try block; the handler logs and
\* the first loop over demodulators.items() starts
Interrupt ==
    /\ main_pc \in {"read", "lock", "fanout", "scan"}
    /\ idx' = 1
    /\ iter_len' = Len(demodulators)
    /\ main_pc' = IF demodulators = <<>> THEN "done" ELSE "close"
    /\ UNCHANGED <<use_autocorrelation, nbatch, stream_pos, eof, remaining_data,
                   iqdata, demods, dict_lock, demodulators, chan, fa_queue, fa_pc,
                   fa_freq, delivered, last_read>>

\* lines 447-448: d.close_queue() on item idx, then the iterator's next():
\* RuntimeError when the dict changed size, the second loop when exhausted
MainClose ==
    /\ main_pc = "close"
    /\ chan' = [chan EXCEPT ![demodulators[idx][2]] = queue_put(@, Sentinel)]
    /\ IF Len(demodulators) # iter_len
       THEN main_pc' = "crashed" /\ UNCHANGED <<idx, iter_len>>
       ELSE IF idx + 1 > Len(demodulators)
       THEN main_pc' = "join" /\ idx' = 1 /\ iter_len' = Len(demodulators)
       ELSE main_pc' = "close" /\ idx' = idx + 1 /\ UNCHANGED iter_len
    /\ UNCHANGED <<use_autocorrelation, nbatch, stream_pos, eof, remaining_data,
                   iqdata, demods, dict_lock, demodulators, fa_queue, fa_pc,
                   fa_freq, delivered, last_read>>

\* lines 450-451: d.drain_queue() on item idx returns once that thread has
\* ended, then the iterator's next()
MainJoin ==
    /\ main_pc = "join"
    /\ chan[demodulators[idx][2]].thread # "running"
    /\ IF Len(demodulators) # iter_len
       THEN main_pc' = "crashed" /\ UNCHANGED idx
       ELSE IF idx + 1 > Len(demodulators)
       THEN main_pc' = "done" /\ UNCHANGED idx
       ELSE main_pc' = "join" /\ idx' = idx + 1
    /\ UNCHANGED <<use_autocorrelation, nbatch, stream_pos, eof, remaining_data,
                   iqdata, demods, iter_len, dict_lock, demodulators, chan,
                   fa_queue, fa_pc, fa_freq, delivered, last_read>>

\* ------------------------------------------------------ Demodulator worker
\* what a batch can look like to a channel
BatchInputs ==
    {[zero |-> TRUE, dbfs |-> 0, ac |-> 0]} \cup
    {[zero |-> FALSE, dbfs |-> d, ac |-> a] : d \in DbfsLevels, a \in AcLevels}

\* lines 111-117: one turn of the worker loop of Demodulator object o
DemodWorker(o) ==
    /\ chan[o].thread = "running"
    /\ chan[o].queue # <<>>
    /\ LET item == Head(chan[o].queue)
           self == [chan[o] EXCEPT !.queue = Tail(@)]
       IN  IF item = Sentinel
           THEN chan' = [chan EXCEPT ![o] = [self EXCEPT !.thread = "exited"]]
           ELSE \E inp \in BatchInputs :
                  LET r == Demodulator_ingest(self, item, inp.zero, inp.dbfs, inp.ac)
                  IN  chan' = [chan EXCEPT ![o] =
                                 IF r.raised THEN [r.self EXCEPT !.thread = "dead"]
                                 ELSE r.self]
    /\ UNCHANGED <<use_autocorrelation, main_pc, nbatch, stream_pos, eof,
                   remaining_data, iqdata, demods, idx, iter_len, dict_lock,
                   demodulators, fa_queue, fa_pc, fa_freq, delivered,
                   last_read>>

\* ---------------------------------------------------- class FrequencyAdder
\* convert2hist and line 411: int(f[max_ind] * 1000000) for the bin of signed
\* index k, f = fftfreq(NFFT) * INPUT_RATE / 1e6 + CENTER / 1e6
BinFreq(k) == CENTER + (k * INPUT_RATE) \div NFFT

\* lines 414-415
in_modulators(freq) ==
    \E i \in 1..Len(demodulators) : is_within(chan[demodulators[i][2]], freq)

\* lines 386-391 and 406-416: the worker takes a batch and runs _ingest up to
\* the registry lock; strong: the peak power reaches the threshold, in bin k.
\* fa_pc is "get", "lock", "insert", "exited" (break) or "dead" (exception)
ScanGet ==
    /\ fa_pc = "get"
    /\ fa_queue # <<>>
    /\ fa_queue' = Tail(fa_queue)
    /\ IF Head(fa_queue) = Sentinel
       THEN fa_pc' = "exited" /\ UNCHANGED fa_freq
       ELSE IF Head(fa_queue).data = <<>>
       THEN \* S.argmax() of the empty PSD of an empty batch raises ValueError
            fa_pc' = "dead" /\ UNCHANGED fa_freq
       ELSE \E strong \in BOOLEAN :
            \E k \in IF strong THEN ScanBins ELSE {0} :
               IF strong /\ ~in_modulators(BinFreq(k))
               THEN fa_pc' = "lock" /\ fa_freq' = BinFreq(k)
               ELSE fa_pc' = "get" /\ UNCHANGED fa_freq
    /\ UNCHANGED <<use_autocorrelation, main_pc, nbatch, stream_pos, eof,
                   remaining_data, iqdata, demods, idx, iter_len, dict_lock,
                   demodulators, chan, delivered, last_read>>

\* line 417: with dict_lock
ScanAcquire ==
    /\ fa_pc = "lock"
    /\ dict_lock = "free"
    /\ dict_lock' = "fa"
    /\ fa_pc' = "insert"
    /\ UNCHANGED <<use_autocorrelation, main_pc, nbatch, stream_pos, eof,
                   remaining_data, iqdata, demods, idx, iter_len, demodulators,
                   chan, fa_queue, fa_freq, delivered, last_read>>

\* lines 418-419: self.demod[freq] = Demodulator(freq), then the lock is released
ScanInsert ==
    /\ fa_pc = "insert"
    /\ chan' = Append(chan, Demodulator(fa_freq, Len(chan) + 1))
    /\ demodulators' = DictSet(demodulators, fa_freq, Len(chan) + 1)
    /\ dict_lock' = "free"
    /\ fa_pc' = "get"
    /\ UNCHANGED <<use_autocorrelation, main_pc, nbatch, stream_pos, eof,
                   remaining_data, iqdata, demods, idx, iter_len, fa_queue,
                   fa_freq, delivered, last_read>>

\* ---------------------------------------------------------- specifications
\* the state after line 431: the command-line channels and the scanner started
Init ==
    /\ use_autocorrelation \in BOOLEAN
    /\ main_pc = "read"
    /\ nbatch = 0
    /\ stream_pos = 0
    /\ eof = FALSE
    /\ remaining_data = <<>>
    /\ iqdata = Sentinel
    /\ demods = <<>>
    /\ idx = 1
    /\ iter_len = 0
    /\ dict_lock = "free"
    /\ demodulators = InitRegistry(freqs, 1).dict
    /\ chan = InitRegistry(freqs, 1).objs
    /\ fa_queue = <<>>
    /\ fa_pc = "get"
    /\ fa_freq = 0
    /\ delivered = <<>>
    /\ last_read = [n |-> 0, odd |-> FALSE]

Next ==
    \/ MainRead(MaxBatches)
    \/ MainSnapshot
    \/ MainFanout
    \/ MainScan
    \/ Interrupt
    \/ MainClose
    \/ MainJoin
    \/ \E o \in 1..Len(chan) : DemodWorker(o)
    \/ ScanGet
    \/ ScanAcquire
    \/ ScanInsert

Spec == Init /\ [][Next]_vars

\* one channel fed by the ingest loop, the scanner never scheduled
NextDemod ==
    \/ MainRead(MaxIngest)
    \/ MainSnapshot
    \/ MainFanout
    \/ MainScan
    \/ \E o \in 1..Len(chan) : DemodWorker(o)

SpecDemod == Init /\ [][NextDemod]_vars

\* lines 43-59: the startup assertions on the command line c
Accepted(c) ==
    /\ c.input_rate % IF_RATE = 0
    /\ IF_RATE % AUDIO_RATE = 0
    /\ c.input_rate % c.step = 0
    /\ LET if_freq == IF c.center >= c.freq THEN c.center - c.freq ELSE c.freq - c.center
       IN  /\ if_freq % c.step = 0
           /\ 10 * if_freq < 4 * c.input_rate

\* the command lines with one channel that pass the startup assertions
MixerConfigs ==
    { c \in [ center : {CENTER}, input_rate : MixerRates, step : MixerSteps,
              freq : {CENTER + d : d \in MixerOffsets} ] : Accepted(c) }

\* the state after line 431 under any accepted command line
InitMixer ==
    /\ use_autocorrelation \in BOOLEAN
    /\ main_pc = "read"
    /\ nbatch = 0
    /\ stream_pos = 0
    /\ eof = FALSE
    /\ remaining_data = <<>>
    /\ iqdata = Sentinel
    /\ demods = <<>>
    /\ idx = 1
    /\ iter_len = 0
    /\ dict_lock = "free"
    /\ \E c \in MixerConfigs :
         /\ demodulators = <<<<c.freq, 1>>>>
         /\ chan = <<DemodulatorAt(c.center, c.input_rate, c.step, c.freq, 1)>>
    /\ fa_queue = <<>>
    /\ fa_pc = "get"
    /\ fa_freq = 0
    /\ delivered = <<>>
    /\ last_read = [n |-> 0, odd |-> FALSE]

\* the ingest loop and the Demodulator worker under that command line; the
\* read size INGEST_SIZE * 2 is the length of the channel's carrier table
NextMixer ==
    \/ MainReadOf(MaxMixerBatches, chan[1].carrier_len)
    \/ MainSnapshot
    \/ MainFanout
    \/ MainScan
    \/ \E o \in 1..Len(chan) : DemodWorker(o)

SpecMixer == InitMixer /\ [][NextMixer]_vars

\* ------------------------------------------------------------------ claims
\* batch numbers of the records of a channel's history
HistNs(H) == [k \in 1..Len(H) |-> H[k].n]

\* batch numbers of the batches waiting on a queue, sentinels left out
RECURSIVE QueueNs(_)
QueueNs(q) ==
    IF q = <<>> THEN <<>>
    ELSE IF Head(q) = Sentinel THEN QueueNs(Tail(q))
    ELSE <<Head(q).n>> \o QueueNs(Tail(q))

\* C1: squelch monotonicity. For every channel and every three consecutive
\* batches of its history voted +1 that start from is_recording = FALSE with
\* histeresis = HISTERESIS_UP, the channel is recording after the third batch
\* and not before; for three consecutive batches voted -1 that start from
\* is_recording = TRUE with histeresis = HISTERESIS_DOWN, the channel stops
\* recording on the third batch and not before.
C1_SquelchMonotonicity ==
    \A o \in 1..Len(chan) :
      LET H == chan[o].hist
      IN  \A k \in 1..(Len(H) - 2) :
            /\ ( /\ ~H[k].rec0 /\ H[k].h0 = HISTERESIS_UP
                 /\ H[k].vote = 1 /\ H[k + 1].vote = 1 /\ H[k + 2].vote = 1 )
               => (~H[k].rec1 /\ ~H[k + 1].rec1 /\ H[k + 2].rec1)
            /\ ( /\ H[k].rec0 /\ H[k].h0 = HISTERESIS_DOWN
                 /\ H[k].vote = -1 /\ H[k + 1].vote = -1 /\ H[k + 2].vote = -1 )
               => (H[k].rec1 /\ H[k + 1].rec1 /\ ~H[k + 2].rec1)

\* witness of C1: one channel went through both runs of three votes
C1_Witness ==
    \E o \in 1..Len(chan) :
      LET H == chan[o].hist
      IN  /\ \E k \in 1..(Len(H) - 2) :
               /\ ~H[k].rec0 /\ H[k].h0 = HISTERESIS_UP
               /\ H[k].vote = 1 /\ H[k + 1].vote = 1 /\ H[k + 2].vote = 1
               /\ H[k + 2].rec1
          /\ \E k \in 1..(Len(H) - 2) :
               /\ H[k].rec0 /\ H[k].h0 = HISTERESIS_DOWN
               /\ H[k].vote = -1 /\ H[k + 1].vote = -1 /\ H[k + 2].vote = -1
               /\ ~H[k + 2].rec1

\* index after the last record before k that cleared memory_up: a negative
\* vote or a transition of is_recording (1 when there is none)
SinceClear(H, k) ==
    LET cl == {j \in 1..(k - 1) : H[j].vote = -1 \/ H[j].rec0 # H[j].rec1}
    IN  IF cl = {} THEN 1 ELSE 1 + CHOOSE j \in cl : \A i \in cl : i <= j

\* C2: pre-roll correctness. On every batch on which a channel goes from not
\* recording to recording, the block squelch returns is the in-order
\* concatenation of the baseband blocks of exactly the batches voted +1 since
\* memory_up was last cleared, the current batch included.
C2_PreRoll ==
    \A o \in 1..Len(chan) :
      LET H == chan[o].hist
      IN  \A k \in 1..Len(H) :
            (~H[k].rec0 /\ H[k].rec1) =>
              LET s == SinceClear(H, k)
              IN  /\ \A j \in s..k : H[j].vote = 1
                  /\ H[k].out = Concatenate([j \in 1..(k - s + 1) |->
                                               Baseband(H[s + j - 1].n)])

\* witness of C2: a recording started after an earlier negative vote with a
\* pre-roll of three blocks
C2_Witness ==
    \E o \in 1..Len(chan) :
      LET H == chan[o].hist
      IN  \E k \in 1..Len(H) :
            /\ ~H[k].rec0 /\ H[k].rec1
            /\ SinceClear(H, k) > 1
            /\ Len(H[k].out) = 3 * Len(Baseband(1))

\* C3: noise-floor freeze. Every batch a channel processes while it is
\* recording at the start of the batch leaves dbfs_off as it was.
C3_NoiseFloorFreeze ==
    \A o \in 1..Len(chan) :
      LET H == chan[o].hist
      IN  \A k \in 1..Len(H) : H[k].rec0 => H[k].off1 = H[k].off0

\* witness of C3: with the strength voter, a noise floor that has moved, then
\* a batch voted -1 while recording and the batch on which recording stops
C3_Witness ==
    /\ ~use_autocorrelation
    /\ \E o \in 1..Len(chan) :
         LET H == chan[o].hist
         IN  \E k \in 1..Len(H) :
               /\ H[k].rec0 /\ ~H[k].rec1 /\ H[k].vote = -1
               /\ H[k].off0 # 0
               /\ \E j \in 1..(k - 1) : H[j].rec0 /\ H[j].rec1 /\ H[j].vote = -1

\* no two items of the registry have the same frequency, and every object is
\* registered under its own frequency
RegistryUnique(d) ==
    /\ \A i, j \in 1..Len(d) : i # j => d[i][1] # d[j][1]
    /\ \A i \in 1..Len(d) : chan[d[i][2]].freq = d[i][1]

\* C4: registry uniqueness. No two channels of the registry share a frequency;
\* every step keeps the items the registry had (none removed, none replaced),
\* and an item it adds has a frequency f for which no channel already in the
\* registry has lower < f <= upper, lower/upper being its frequency -/+
\* CHANNEL_SPACING/2.
C4_RegistryUniqueness ==
    /\ RegistryUnique(demodulators)
    /\ [][ /\ RegistryUnique(demodulators)'
           /\ Len(demodulators') >= Len(demodulators)
           /\ \A i \in 1..Len(demodulators) : demodulators'[i] = demodulators[i]
           /\ \A i \in (Len(demodulators) + 1)..Len(demodulators') :
                \A j \in 1..Len(demodulators) :
                  ~ ( /\ demodulators[j][1] - CHANNEL_SPACING \div 2 < demodulators'[i][1]
                      /\ demodulators'[i][1] <= demodulators[j][1] + CHANNEL_SPACING \div 2 )
         ]_vars

\* witness of C4: the scanner has inserted a channel while the ingest loop
\* was running
C4_Witness ==
    /\ Len(demodulators) > Len(freqs)
    /\ main_pc \in {"read", "lock", "fanout", "scan"}
    /\ nbatch > 1

\* C5, as claimed: once the main thread is through its shutdown code, every
\* Demodulator worker was sent the sentinel and has ended, and so has the
\* scanner worker.
C5_ShutdownReachesEveryWorker ==
    main_pc = "done" =>
      /\ fa_pc \in {"exited", "dead"}
      /\ \A o \in 1..Len(chan) : chan[o].closed /\ chan[o].thread # "running"

\* C6: drain before exit. A Demodulator worker that has left its loop on the
\* sentinel has run _ingest on every batch that was put on its queue, in the
\* order they were put, and has left nothing on the queue.
C6_DrainBeforeExit ==
    \A o \in 1..Len(chan) :
      chan[o].thread = "exited" =>
        /\ HistNs(chan[o].hist) = chan[o].received
        /\ QueueNs(chan[o].queue) = <<>>

\* witness of C6: a worker has exited on the sentinel after several batches
C6_Witness ==
    \E o \in 1..Len(chan) :
      chan[o].thread = "exited" /\ Len(chan[o].hist) >= 2

\* C7: fan-out ordering. The batches a channel was handed are consecutive
\* batch numbers; the batches it has processed, the batch it died on if any,
\* and the batches waiting on its queue are those batches in that order; a
\* channel that was handed a batch is in every later snapshot and has been
\* handed the current batch once the fan-out of the iteration is over.
C7_FanoutOrdering ==
    \A o \in 1..Len(chan) :
      LET c == chan[o]
          R == c.received
          H == HistNs(c.hist)
          Q == QueueNs(c.queue)
          d == IF c.thread = "dead" THEN 1 ELSE 0
      IN  /\ \A i \in 1..(Len(R) - 1) : R[i + 1] = R[i] + 1
          /\ Len(H) + d + Len(Q) = Len(R)
          /\ H = SubSeq(R, 1, Len(H))
          /\ Q = SubSeq(R, Len(R) - Len(Q) + 1, Len(R))
          /\ R # <<>> =>
               /\ R[Len(R)] \in {nbatch - 1, nbatch}
               /\ main_pc = "read" => R[Len(R)] = nbatch
               /\ main_pc \in {"fanout", "scan"} =>
                    \E i \in 1..Len(demods) : demods[i][2] = o
          /\ (main_pc = "scan" /\ \E i \in 1..Len(demods) : demods[i][2] = o) =>
               (R # <<>> /\ R[Len(R)] = nbatch)

\* witness of C7: a channel the scanner added has joined the fan-out at a
\* later batch and processed it, next to a channel that has processed two
C7_Witness ==
    \E o, p \in 1..Len(chan) :
      /\ chan[o].received # <<>> /\ chan[o].received[1] > 1
      /\ Len(chan[o].hist) >= 1
      /\ Len(chan[p].hist) >= 2

\* C8, as claimed: after a read that returned no bytes the ingest loop hands
\* out no batch.
C8_LoopStopsAtEof ==
    (nbatch > 0 /\ last_read.n = 0 /\ ~last_read.odd) =>
      main_pc \notin {"fanout", "scan"}

\* C9, as claimed: the bytes handed out in batches followed by the carry byte
\* are the bytes read so far, and a read that leaves an odd number of bytes
\* carries the last byte over and lets the loop go on.
C9_OddByteCarried ==
    /\ BCat(delivered, remaining_data) = StreamBytes(0, stream_pos)
    /\ last_read.odd =>
         /\ main_pc # "crashed"
         /\ remaining_data = StreamBytes(stream_pos - 1, 1)

\* C10, as claimed: every channel of the registry has an IF offset that is a
\* multiple of STEP and smaller in magnitude than 0.4 * INPUT_RATE.
C10_ChannelOffsets ==
    \A i \in 1..Len(demodulators) :
      LET off == demodulators[i][1] - CENTER
      IN  /\ off % STEP = 0
          /\ 10 * off < 4 * INPUT_RATE
          /\ 10 * off > -4 * INPUT_RATE

\* samples a channel has mixed before record k of its history
RECURSIVE SamplesBefore(_, _)
SamplesBefore(H, k) == IF k <= 1 THEN 0 ELSE H[k - 1].len + SamplesBefore(H, k - 1)

\* C11, as claimed: if_phase stays inside the period and equals the number of
\* samples mixed so far modulo the period, and the carrier a batch starts with
\* is the carrier one long batch would have applied to the same sample, the
\* table entry at the number of samples mixed so far.
C11_PhaseContinuity ==
    \A o \in 1..Len(chan) :
      LET c == chan[o]
          H == c.hist
      IN  /\ 0 <= c.if_phase /\ c.if_phase < c.if_period
          /\ \A k \in 1..Len(H) :
               /\ H[k].phase0 = SamplesBefore(H, k) % c.if_period
               /\ H[k].len > 0 =>
                    carrier_angle(c, H[k].phase0) = carrier_angle(c, SamplesBefore(H, k))

\* C12, as claimed: outside the read of line 435 the ingest loop never waits
\* for a worker: whenever the main thread is at the registry snapshot, inside
\* the fan-out or at the hand-over to the scanner, its next step can be taken,
\* in particular the registry lock is not held by the scanner.
C12_NonBlockingIngest ==
    /\ main_pc \in {"lock", "fanout", "scan"} =>
          ENABLED (MainSnapshot \/ MainFanout \/ MainScan)
    /\ main_pc = "lock" => dict_lock = "free"

\* C13: the batch that stops a recording writes the silence block, and that
\* block stays the last one of its file; the batch that starts a recording
\* finds no file open and its block is the first block of a new file; every
\* file begins with the block of a starting batch and holds no other.
C13_OneFilePerRecording ==
    \A o \in 1..Len(chan) :
      LET H == chan[o].hist
          F == chan[o].files
          Starts == {H[k].n : k \in {j \in 1..Len(H) : ~H[j].rec0 /\ H[j].rec1}}
      IN  /\ \A k \in 1..Len(H) :
               /\ (H[k].rec0 /\ ~H[k].rec1) =>
                     \E f \in 1..Len(F) :
                        /\ F[f][Len(F[f])].n = H[k].n
                        /\ F[f][Len(F[f])].samples = silence
               /\ (~H[k].rec0 /\ H[k].rec1) =>
                     /\ H[k].wav0 = 0
                     /\ \E f \in 1..Len(F) : F[f][1].n = H[k].n
          /\ \A f \in 1..Len(F) :
               /\ F[f][1].n \in Starts
               /\ \A i \in 2..Len(F[f]) : F[f][i].n \notin Starts

\* a channel stopped a recording and later started the next one
C13_Witness ==
    \E o \in 1..Len(chan) :
      /\ Len(chan[o].files) = 2
      /\ chan[o].files[1][Len(chan[o].files[1])].samples = silence
      /\ chan[o].is_recording

\* batch k of history H meets a channel that is not recording and is either
\* in its initial state or was voted -1 on the batch before
Quiet(H, k) == ~H[k].rec0 /\ (k = 1 \/ H[k - 1].vote = -1)

\* C14: on a channel that is not recording and whose previous batch was voted
\* -1 (or that is in its initial state), a batch voted +1 followed by a batch
\* voted -1 starts no recording in either batch, and memory_up is empty after
\* the -1 batch.
C14_GlitchRejection ==
    \A o \in 1..Len(chan) :
      LET H == chan[o].hist
      IN  \A k \in 1..(Len(H) - 1) :
            (Quiet(H, k) /\ H[k].vote = 1 /\ H[k + 1].vote = -1) =>
               /\ ~H[k].rec1
               /\ ~H[k + 1].rec1
               /\ H[k + 1].mem1 = 0
               /\ (k + 1 = Len(H) => chan[o].memory_up = <<>>)

\* a glitch happened: +1 then -1 on a quiet channel, after an earlier -1
C14_Witness ==
    \E o \in 1..Len(chan) :
      LET H == chan[o].hist
      IN  \E k \in 2..(Len(H) - 1) :
            /\ Quiet(H, k) /\ H[k].vote = 1 /\ H[k + 1].vote = -1
            /\ H[k].mem1 = 1

\* C15, as claimed: a batch whose IF strength is zero raises no error and does
\* not stop the worker of its channel, which goes on with the later batches.
C15_ZeroStrengthGuard ==
    \A o \in 1..Len(chan) :
       chan[o].zero_strength => chan[o].thread # "dead"

\* C16 (invariant I4): between the batches of a channel memory_up is non-empty
\* only if the channel is not recording and every batch since memory_up was
\* last empty was voted +1, the most recent one included; while the channel
\* is recording memory_up is empty.
C16_PreRollInvariant ==
    \A o \in 1..Len(chan) :
      LET c == chan[o]
          H == c.hist
      IN  /\ c.is_recording => c.memory_up = <<>>
          /\ c.memory_up # <<>> =>
               /\ ~c.is_recording
               /\ Len(c.memory_up) <= Len(H)
               /\ \A k \in (Len(H) - Len(c.memory_up) + 1)..Len(H) :
                    /\ H[k].vote = 1
                    /\ c.memory_up[k - (Len(H) - Len(c.memory_up))] = H[k].out
          /\ \A k \in 1..Len(H) :
               /\ H[k].rec1 => H[k].mem1 = 0
               /\ H[k].mem1 > 0 => H[k].vote = 1

\* a channel holds two batches of pre-roll between batches
C16_Witness ==
    \E o \in 1..Len(chan) :
      /\ Len(chan[o].memory_up) = 2
      /\ Len(chan[o].hist) > 2

\* C17, as claimed: under every command line the startup assertions accept,
\* if_phase + L <= 2 * INGEST_SIZE for every batch length L <= INGEST_SIZE in
\* every reachable state, so the carrier slice of a full batch has exactly
\* INGEST_SIZE elements.
C17_CarrierSliceBounds ==
    \A o \in 1..Len(chan) :
      LET L == chan[o].carrier_len \div 2
      IN  /\ chan[o].if_phase + L <= chan[o].carrier_len
          /\ carrier_slice_len(chan[o], L) = L

\* C18: the timestamp is prefixed to the block of a batch exactly when that
\* batch started a recording: every file a channel creates begins with a
\* timestamped block and has no other, and no silence block carries one.
C18_TimestampPlacement ==
    \A o \in 1..Len(chan) :
      LET H == chan[o].hist
          F == chan[o].files
      IN  /\ \A f \in 1..Len(F) :
               /\ F[f][1].ts
               /\ \A i \in 2..Len(F[f]) : ~F[f][i].ts
               /\ \A i \in 1..Len(F[f]) :
                    /\ F[f][i].samples = silence => ~F[f][i].ts
                    /\ \A k \in 1..Len(H) :
                         H[k].n = F[f][i].n =>
                            (F[f][i].ts <=> (~H[k].rec0 /\ H[k].rec1))
          /\ \A k \in 1..Len(H) :
               (~H[k].rec0 /\ H[k].rec1) =>
                  \E f \in 1..Len(F) : F[f][1].n = H[k].n /\ F[f][1].ts

\* a recording with its start block, a later block and the closing silence,
\* and a second recording after it
C18_Witness ==
    \E o \in 1..Len(chan) :
      LET F == chan[o].files
      IN  /\ Len(F) = 2
          /\ Len(F[1]) >= 3
          /\ F[1][Len(F[1])].samples = silence
          /\ F[2][1].ts

\* C19: after every completed batch of a channel, not recording implies
\* HISTERESIS_UP <= histeresis <= -1 and recording implies
\* 1 <= histeresis <= HISTERESIS_DOWN; a recording starts only on a batch voted
\* +1, whose concatenated memory_up holds at least that batch, and stops only
\* on a batch voted -1.
C19_HysteresisCoupling ==
    \A o \in 1..Len(chan) :
      LET c == chan[o]
          H == c.hist
      IN  /\ ~c.is_recording => (HISTERESIS_UP <= c.histeresis /\ c.histeresis <= -1)
          /\ c.is_recording => (1 <= c.histeresis /\ c.histeresis <= HISTERESIS_DOWN)
          /\ \A k \in 1..Len(H) :
               /\ ~H[k].rec1 => (HISTERESIS_UP <= H[k].h1 /\ H[k].h1 <= -1)
               /\ H[k].rec1 => (1 <= H[k].h1 /\ H[k].h1 <= HISTERESIS_DOWN)
               /\ (~H[k].rec0 /\ H[k].rec1) =>
                     /\ H[k].vote = 1
                     /\ Len(H[k].out) = Len(Baseband(H[k].n)) * (H[k].mem0 + 1)
               /\ (H[k].rec0 /\ ~H[k].rec1) => H[k].vote = -1

\* a channel has started a recording and stopped it
C19_Witness ==
    \E o \in 1..Len(chan) :
      LET H == chan[o].hist
      IN  /\ \E k \in 1..Len(H) : ~H[k].rec0 /\ H[k].rec1 /\ H[k].h1 = HISTERESIS_DOWN
          /\ \E k \in 1..Len(H) : H[k].rec0 /\ ~H[k].rec1 /\ H[k].h1 = HISTERESIS_UP

\* C20: when is_recording changes on a batch of a channel it does not change
\* on the next two batches, whatever their votes: two changes are at least 3
\* batches apart.
C20_HysteresisDwell ==
    \A o \in 1..Len(chan) :
      LET H == chan[o].hist
      IN  \A k \in 1..Len(H) : \A j \in 1..Len(H) :
            (/\ H[k].rec0 # H[k].rec1
             /\ H[j].rec0 # H[j].rec1
             /\ k < j) => H[j].n - H[k].n >= 3

\* is_recording changed three times, each change exactly 3 batches after the
\* one before
C20_Witness ==
    \E o \in 1..Len(chan) :
      LET H == chan[o].hist
      IN  \E k \in 1..(Len(H) - 6) :
            /\ H[k].rec0 # H[k].rec1
            /\ H[k + 3].rec0 # H[k + 3].rec1
            /\ H[k + 6].rec0 # H[k + 6].rec1

====
